---- MODULE Spec2Model ----
(***************************************************************************)
(* A model of observe-rs: the instrument capability traits, the mock       *)
(* (atomic) instruments, the Metric wrapper, the generic registry and the  *)
(* Prometheus backend's registration-time validation.                      *)
(*                                                                         *)
(* Machine integers are modelled with their wrap-around arithmetic at a    *)
(* scaled width: WordBits stands for the 64 bits of AtomicU64 / AtomicI64  *)
(* (TLC's integers are 32 bits wide, so 2^64 itself cannot be written).    *)
(* f64 values are modelled as thousandths (0.005 is 5, 1.0 is 1000) plus   *)
(* the three non-finite values "NaN", "Inf" and "-Inf".                    *)
(***************************************************************************)
EXTENDS Integers, Sequences, FiniteSets, TLC

VARIABLES
    cval,       \* MockCounter: the shared AtomicU64
    clog,       \* mutating calls made on the counter since it was created
    creads,     \* the values returned by get_counter(), in call order
    tstate,     \* thread test: each spawned thread's position
    tdone,      \* thread test: inc() calls each thread has completed
    mainPc,     \* thread test: position of the test's main thread
    mainIdx,    \* thread test: next thread to spawn / join
    tfinal,     \* thread test: the values read after all joins (none yet: <<>>)
    gval,       \* MockGauge: the shared AtomicI64
    glog,       \* mutating calls made on the gauge since it was created
    heap,       \* the Arc allocations: each holds one instrument's state
    handles,    \* instrument handles held by the program: each points into heap
    horigin,    \* for each handle, the handle created by new() it descends from
    hlast,      \* the handle the most recent mutation went through (0: none)
    hops,       \* mutations made through handles so far
    hobs,       \* MockHistogram: the Vec<f64> behind the mutex
    obsN,       \* number of observe() calls made on the histogram
    obsTotal,   \* exact total, in thousandths, of the finite values observed
    obsSaw,     \* the non-finite values observed
    registry,   \* ObservabilityRegistry.inner: the backend's registered metrics
    nCalls,     \* registration calls made on the registry so far
    lastCall,   \* the most recent registration call and its arguments
    lastResult, \* what that call returned
    metrics,    \* the Metric values successful registrations returned to the caller
    nMut,       \* value mutations made through those metrics so far
    rendered,   \* what the last two render() calls returned, older first
    quiet,      \* nothing was registered or mutated since that render
    lock,       \* standalone server: holders of the RwLock around the registry
    waiters,    \* standalone server: tasks queued for the lock, oldest first
    pc,         \* standalone server: each task's position
    response,   \* standalone server: the last /metrics response and its render
    heldAtMut,  \* standalone server: the lock as the latest mutation found it
    probe,      \* standalone server: the last /health or /ready answer
    hstatus,    \* the HealthStatus a health check produced
    rstatus,    \* the ReadinessStatus a readiness check produced
    hanswer,    \* is_healthy() and status_code() of hstatus (not asked yet: <<>>)
    ranswer,    \* is_ready() and status_code() of rstatus (not asked yet: <<>>)
    free        \* the metrics the free helper functions returned, with their maker

counterVars == <<cval, clog, creads>>
threadVars == <<tstate, tdone, mainPc, mainIdx, tfinal>>
gaugeVars == <<gval, glog>>
handleVars == <<heap, handles, horigin, hlast, hops>>
histVars == <<hobs, obsN, obsTotal, obsSaw>>
registryVars == <<registry, nCalls, lastCall, lastResult>>
exposeVars == <<metrics, nMut, rendered, quiet>>
serverVars == <<lock, waiters, pc, response, heldAtMut, probe>>
statusVars == <<hstatus, rstatus, hanswer, ranswer>>
helperVars == <<free>>
vars ==
    <<cval, clog, creads, tstate, tdone, mainPc, mainIdx, tfinal, gval, glog,
      heap, handles, horigin, hlast, hops, hobs, obsN, obsTotal, obsSaw,
      registry, nCalls, lastCall, lastResult, metrics, nMut, rendered, quiet,
      lock, waiters, pc, response, heldAtMut, probe, hstatus, rstatus, hanswer, ranswer,
      free>>

(***************************************************************************)
(* Bounds of the model.                                                    *)
(***************************************************************************)
WordBits == 4
MaxOps == 3
MaxReads == 2
NumThreads == 3
IncsPerThread == 3
MaxHandles == 3
MaxHandleOps == 2
MaxObs == 3
MaxNameLen == 2
MaxBuckets == 3
MaxCalls == 2
MaxMutations == 2
MaxFree == 2

(***************************************************************************)
(* Machine integers.                                                       *)
(***************************************************************************)
U64Modulus == 2 ^ WordBits
U64Max == U64Modulus - 1
I64Max == (U64Modulus \div 2) - 1
I64Min == -(U64Modulus \div 2)
U64 == 0 .. U64Max
I64 == I64Min .. I64Max

\* The two's complement value of the low WordBits bits of x.
WrapI64(x) ==
    LET m == x % U64Modulus
    IN  IF m > I64Max THEN m - U64Modulus ELSE m

\* A bug the wrapping add could be replaced by: add that discards the old value.
AtomicU64Store(cur, v) == v % U64Modulus

\* AtomicU64::fetch_add: wrapping addition, one indivisible read-modify-write.
AtomicU64FetchAdd(cur, v) == (cur + v) % U64Modulus

\* A bug the wrapping add could be replaced by: saturating addition.
AtomicI64SaturatingAdd(cur, v) ==
    IF cur + v > I64Max THEN I64Max
    ELSE IF cur + v < I64Min THEN I64Min ELSE cur + v

\* AtomicI64::fetch_add / fetch_sub: wrapping two's complement arithmetic.
AtomicI64FetchAdd(cur, v) == WrapI64(cur + v)

AtomicI64FetchSub(cur, v) == WrapI64(cur - v)

(***************************************************************************)
(* backends/mock.rs: MockCounter                                           *)
(***************************************************************************)
MockCounterNew == 0

MockCounterReset(c) == 0

MockCounterInc(c) == AtomicU64FetchAdd(c, 1)

MockCounterIncBy(c, value) == AtomicU64FetchAdd(c, value)

MockCounterGet(c) == c

(***************************************************************************)
(* backends/mock.rs: MockGauge                                             *)
(***************************************************************************)
MockGaugeNew == 0

MockGaugeSet(g, value) == value

MockGaugeInc(g) == AtomicI64FetchAdd(g, 1)

MockGaugeIncBy(g, value) == AtomicI64FetchAdd(g, value)

MockGaugeDec(g) == AtomicI64FetchSub(g, 1)

\* A bug dec_by could have: adding where it must subtract.
MockGaugeDecByAdds(g, value) == AtomicI64FetchAdd(g, value)

MockGaugeDecBy(g, value) == AtomicI64FetchSub(g, value)

MockGaugeGet(g) == g

(***************************************************************************)
(* core/metrics.rs: Metric<T> delegates every operation to its inner.      *)
(***************************************************************************)
MetricInc(inner) == MockCounterInc(inner)

MetricIncBy(inner, value) == MockCounterIncBy(inner, value)

MetricGetCounter(inner) == MockCounterGet(inner)

MetricSet(inner, value) == MockGaugeSet(inner, value)

MetricGaugeInc(inner) == MockGaugeInc(inner)

MetricGaugeIncBy(inner, value) == MockGaugeIncBy(inner, value)

MetricDec(inner) == MockGaugeDec(inner)

MetricDecBy(inner, value) == MockGaugeDecBy(inner, value)

MetricGetGauge(inner) == MockGaugeGet(inner)

(***************************************************************************)
(* f64: a finite value in thousandths, or NaN, +Infinity, -Infinity.       *)
(***************************************************************************)
Fin(n) == [k |-> "fin", v |-> n]
NaN == [k |-> "nan", v |-> 0]
PosInf == [k |-> "inf", v |-> 1]
NegInf == [k |-> "inf", v |-> -1]

\* f64::is_finite
F64IsFinite(x) == x.k = "fin"

\* f64 addition (IEEE 754; finite sums are exact at this scale).
F64Add(a, b) ==
    IF a.k = "nan" \/ b.k = "nan" THEN NaN
    ELSE IF a.k = "inf" /\ b.k = "inf" THEN (IF a.v = b.v THEN a ELSE NaN)
    ELSE IF a.k = "inf" THEN a
    ELSE IF b.k = "inf" THEN b
    ELSE Fin(a.v + b.v)

\* The position of a non-NaN value on the extended real line, for comparisons.
F64Rank(x) == IF x.k = "inf" THEN <<x.v, 0>> ELSE <<0, x.v>>

\* f64 `<`: false whenever an operand is NaN.
F64Lt(a, b) ==
    /\ a.k # "nan"
    /\ b.k # "nan"
    /\ \/ F64Rank(a)[1] < F64Rank(b)[1]
       \/ F64Rank(a)[1] = F64Rank(b)[1] /\ F64Rank(a)[2] < F64Rank(b)[2]

\* f64 `<=`: false whenever an operand is NaN.
F64Le(a, b) == a.k # "nan" /\ b.k # "nan" /\ (F64Lt(a, b) \/ a = b)

(***************************************************************************)
(* backends/mock.rs: MockHistogram                                         *)
(***************************************************************************)
MockHistogramNew == <<>>

\* A bug observe could have: keeping only the latest observation.
MockHistogramObserveReplaces(obs, value) == <<value>>

MockHistogramObserve(obs, value) == Append(obs, value)

MockHistogramObservations(obs) == obs

MockHistogramCount(obs) == Len(obs)

RECURSIVE IterSum(_, _)
IterSum(obs, acc) ==
    IF obs = <<>> THEN acc ELSE IterSum(Tail(obs), F64Add(acc, Head(obs)))

MockHistogramSum(obs) == IterSum(obs, Fin(0))

MetricObserve(inner, value) == MockHistogramObserve(inner, value)

(***************************************************************************)
(* Instrument handles.  MockCounter, MockGauge and MockHistogram are each  *)
(* a struct around an Arc; #[derive(Clone)] clones the Arc, not the state. *)
(***************************************************************************)
Cell(kind, v) == [kind |-> kind, v |-> v]

\* new(): a fresh allocation and the one handle to it.
MockNew(hp, kind) ==
    [heap |-> Append(hp,
                 Cell(kind, CASE kind = "counter" -> MockCounterNew
                              [] kind = "gauge" -> MockGaugeNew
                              [] kind = "histogram" -> MockHistogramNew)),
     ptr |-> Len(hp) + 1]

\* A bug clone could have: copying the state into an allocation of its own.
DeepClone(hp, ptr) == [heap |-> Append(hp, hp[ptr]), ptr |-> Len(hp) + 1]

\* clone(): another handle to the same allocation.
DeriveClone(hp, ptr) == [heap |-> hp, ptr |-> ptr]

\* What a handle reads: get() of a counter or gauge, observations() of a histogram.
HandleRead(hp, ptr) ==
    CASE hp[ptr].kind = "counter" -> MockCounterGet(hp[ptr].v)
      [] hp[ptr].kind = "gauge" -> MockGaugeGet(hp[ptr].v)
      [] hp[ptr].kind = "histogram" -> MockHistogramObservations(hp[ptr].v)

(***************************************************************************)
(* backends/prometheus/prometheus_backend.rs: registration-time validation *)
(* Names are sequences of characters; results are "Ok" or the name of the  *)
(* PrometheusError variant returned.                                       *)
(***************************************************************************)
AsciiLetters ==
    {"a", "b", "c", "d", "e", "f", "g", "h", "i", "j", "k", "l", "m",
     "n", "o", "p", "q", "r", "s", "t", "u", "v", "w", "x", "y", "z",
     "A", "B", "C", "D", "E", "F", "G", "H", "I", "J", "K", "L", "M",
     "N", "O", "P", "Q", "R", "S", "T", "U", "V", "W", "X", "Y", "Z"}
AsciiDigits == {"0", "1", "2", "3", "4", "5", "6", "7", "8", "9"}

\* char::is_ascii_alphabetic
IsAsciiAlphabetic(c) == c \in AsciiLetters

\* char::is_ascii_alphanumeric
IsAsciiAlphanumeric(c) == c \in AsciiLetters \/ c \in AsciiDigits

\* A bug the first-character test could have: the colon of the error's doc comment.
IsValidFirstCharOrColon(c) == IsAsciiAlphabetic(c) \/ c = "_" \/ c = ":"

IsValidFirstChar(c) == IsAsciiAlphabetic(c) \/ c = "_"

IsValidSubsequentChar(c) == IsAsciiAlphanumeric(c) \/ c = "_"

\* The `for c in chars` loop: the first invalid character ends it with an error.
RECURSIVE SubsequentCharsError(_)
SubsequentCharsError(chars) ==
    IF chars = <<>> THEN "Ok"
    ELSE IF ~IsValidSubsequentChar(Head(chars)) THEN "InvalidNamingConvention"
    ELSE SubsequentCharsError(Tail(chars))

ValidatePrometheusMetricName(name) ==
    IF name = <<>> THEN "InvalidNamingConvention"
    ELSE IF ~IsValidFirstChar(Head(name)) THEN "InvalidNamingConvention"
    ELSE SubsequentCharsError(Tail(name))

\* A bug the bucket test could have: `<` for `<=`, which lets equal neighbours pass.
BucketErrorAllowsEqual(buckets, i) ==
    IF ~F64IsFinite(buckets[i]) THEN "InvalidHistogramBuckets"
    ELSE IF F64Lt(buckets[i], Fin(0)) THEN "InvalidHistogramBuckets"
    ELSE IF i > 1 /\ F64Lt(buckets[i], buckets[i - 1]) THEN "InvalidHistogramBuckets"
    ELSE "Ok"

\* The body of the loop over (i, b): the three tests made on bucket i.
BucketError(buckets, i) ==
    IF ~F64IsFinite(buckets[i]) THEN "InvalidHistogramBuckets"
    ELSE IF F64Lt(buckets[i], Fin(0)) THEN "InvalidHistogramBuckets"
    ELSE IF i > 1 /\ F64Le(buckets[i], buckets[i - 1]) THEN "InvalidHistogramBuckets"
    ELSE "Ok"

RECURSIVE ValidateBucketsFrom(_, _)
ValidateBucketsFrom(buckets, i) ==
    IF i > Len(buckets) THEN "Ok"
    ELSE IF BucketError(buckets, i) # "Ok" THEN BucketError(buckets, i)
    ELSE ValidateBucketsFrom(buckets, i + 1)

ValidateHistogramBuckets(buckets) == ValidateBucketsFrom(buckets, 1)

(***************************************************************************)
(* The Prometheus backend.  The registry is the list of registered         *)
(* metrics, in registration order; each holds a clone of the handle the    *)
(* caller gets, so both point to the same allocation.                      *)
(***************************************************************************)
CreateRegistry == <<>>

\* A registry that keeps one instrument per name: a registration under a
\* name already in use would drop the earlier entry.
RegisterReplacing(reg, name, help, kind, ptr) ==
    Append(SelectSeq(reg, LAMBDA e : e.name # name),
           [name |-> name, help |-> help, kind |-> kind, ptr |-> ptr])

\* Registry::register: one more (name, help, metric) entry.
Register(reg, name, help, kind, ptr) ==
    Append(reg, [name |-> name, help |-> help, kind |-> kind, ptr |-> ptr])

\* Histogram::new(buckets): the bounds, and nothing observed yet.
HistogramNew(buckets) == [buckets |-> buckets, sum |-> Fin(0), count |-> 0]

\* A Counter::default() that hands out a counter already in use, if there is one.
CounterDefaultShared(hp) ==
    IF \E p \in DOMAIN hp : hp[p].kind = "counter"
    THEN [heap |-> hp, ptr |-> CHOOSE p \in DOMAIN hp : hp[p].kind = "counter"]
    ELSE [heap |-> Append(hp, Cell("counter", 0)), ptr |-> Len(hp) + 1]

\* Counter::default() / Gauge::default(): a fresh allocation holding 0.
CounterDefault(hp) == [heap |-> Append(hp, Cell("counter", 0)), ptr |-> Len(hp) + 1]

\* A Gauge::default() that hands out a gauge already in use, if there is one.
GaugeDefaultShared(hp) ==
    IF \E p \in DOMAIN hp : hp[p].kind = "gauge"
    THEN [heap |-> hp, ptr |-> CHOOSE p \in DOMAIN hp : hp[p].kind = "gauge"]
    ELSE [heap |-> Append(hp, Cell("gauge", 0)), ptr |-> Len(hp) + 1]

GaugeDefault(hp) == [heap |-> Append(hp, Cell("gauge", 0)), ptr |-> Len(hp) + 1]

Backend(err, reg, hp, ptr) == [err |-> err, registry |-> reg, heap |-> hp, inner |-> ptr]

\* A register_counter that looks the name up first and returns the counter
\* already registered under it.
RegisterCounterReturnsExisting(reg, hp, name, help) ==
    IF ValidatePrometheusMetricName(name) # "Ok"
    THEN Backend(ValidatePrometheusMetricName(name), reg, hp, 0)
    ELSE IF \E i \in DOMAIN reg : reg[i].name = name /\ reg[i].kind = "counter"
    THEN Backend("Ok", reg, hp,
                 reg[CHOOSE i \in DOMAIN reg :
                         reg[i].name = name /\ reg[i].kind = "counter"].ptr)
    ELSE LET counter == CounterDefault(hp)
         IN  Backend("Ok", Register(reg, name, help, "counter", counter.ptr),
                     counter.heap, counter.ptr)

\* A bug register_counter could have: registering a counter of its own
\* instead of a clone of the one it returns.
RegisterCounterDetached(reg, hp, name, help) ==
    IF ValidatePrometheusMetricName(name) # "Ok"
    THEN Backend(ValidatePrometheusMetricName(name), reg, hp, 0)
    ELSE LET counter == CounterDefault(hp)
             stored == CounterDefault(counter.heap)
         IN  Backend("Ok", Register(reg, name, help, "counter", stored.ptr),
                     stored.heap, counter.ptr)

RegisterCounter(reg, hp, name, help) ==
    IF ValidatePrometheusMetricName(name) # "Ok"
    THEN Backend(ValidatePrometheusMetricName(name), reg, hp, 0)
    ELSE LET counter == CounterDefault(hp)
         IN  Backend("Ok", Register(reg, name, help, "counter", counter.ptr),
                     counter.heap, counter.ptr)

RegisterGauge(reg, hp, name, help) ==
    IF ValidatePrometheusMetricName(name) # "Ok"
    THEN Backend(ValidatePrometheusMetricName(name), reg, hp, 0)
    ELSE LET gauge == GaugeDefault(hp)
         IN  Backend("Ok", Register(reg, name, help, "gauge", gauge.ptr),
                     gauge.heap, gauge.ptr)

\* A bug register_histogram could have: registering before the buckets are checked.
RegisterHistogramBeforeBucketCheck(reg, hp, name, help, buckets) ==
    IF ValidatePrometheusMetricName(name) # "Ok"
    THEN Backend(ValidatePrometheusMetricName(name), reg, hp, 0)
    ELSE LET hp2 == Append(hp, Cell("histogram", HistogramNew(buckets)))
             reg2 == Register(reg, name, help, "histogram", Len(hp2))
         IN  IF ValidateHistogramBuckets(buckets) # "Ok"
             THEN Backend(ValidateHistogramBuckets(buckets), reg2, hp2, 0)
             ELSE Backend("Ok", reg2, hp2, Len(hp2))

\* A bug register_histogram could have: checking the buckets before the name.
RegisterHistogramBucketsFirst(reg, hp, name, help, buckets) ==
    IF ValidateHistogramBuckets(buckets) # "Ok"
    THEN Backend(ValidateHistogramBuckets(buckets), reg, hp, 0)
    ELSE IF ValidatePrometheusMetricName(name) # "Ok"
    THEN Backend(ValidatePrometheusMetricName(name), reg, hp, 0)
    ELSE LET hp2 == Append(hp, Cell("histogram", HistogramNew(buckets)))
         IN  Backend("Ok", Register(reg, name, help, "histogram", Len(hp2)),
                     hp2, Len(hp2))

RegisterHistogram(reg, hp, name, help, buckets) ==
    IF ValidatePrometheusMetricName(name) # "Ok"
    THEN Backend(ValidatePrometheusMetricName(name), reg, hp, 0)
    ELSE IF ValidateHistogramBuckets(buckets) # "Ok"
    THEN Backend(ValidateHistogramBuckets(buckets), reg, hp, 0)
    ELSE LET hp2 == Append(hp, Cell("histogram", HistogramNew(buckets)))
         IN  Backend("Ok", Register(reg, name, help, "histogram", Len(hp2)),
                     hp2, Len(hp2))

\* impl MetricsRenderer for Registry: every registered metric, in order, with
\* the state its allocation holds now. Encoding into a String cannot fail.
RegistryRender(reg, hp) ==
    [ok |-> TRUE,
     content_type |-> "text/plain; version=0.0.4; charset=utf-8",
     body |-> [i \in DOMAIN reg |->
                  [name |-> reg[i].name, help |-> reg[i].help,
                   kind |-> reg[i].kind, state |-> hp[reg[i].ptr].v]]]

(***************************************************************************)
(* core/metrics.rs and core/registry.rs: Metric::new and the generic       *)
(* registry, which wraps the backend's handle or passes its error on.      *)
(***************************************************************************)
\* A bug Metric::new could have: not keeping the description.
MetricNewDropsDescription(name, description, inner) ==
    [name |-> name, description |-> "", inner |-> inner]

MetricNew(name, description, inner) ==
    [name |-> name, description |-> description, inner |-> inner]

\* `?` then Ok(Metric::new(name, help, handle)): what the caller receives.
Wrapped(b, name, help) ==
    [registry |-> b.registry,
     heap |-> b.heap,
     result |-> IF b.err = "Ok"
                THEN [ok |-> TRUE, err |-> "Ok",
                      metric |-> <<MetricNew(name, help, b.inner)>>]
                ELSE [ok |-> FALSE, err |-> b.err, metric |-> <<>>]]

\* DEFAULT_BUCKETS, the general-purpose list histogram() does not use.
DefaultBuckets ==
    <<Fin(1), Fin(10), Fin(100), Fin(1000), Fin(10000), Fin(100000), Fin(1000000)>>

\* A default list with a slip in it: 0.01 twice.
LatencyBucketsWithDuplicate ==
    <<Fin(5), Fin(10), Fin(10), Fin(50), Fin(100), Fin(250), Fin(500),
      Fin(1000), Fin(2500), Fin(5000), Fin(10000)>>

DefaultLatencyBuckets ==
    <<Fin(5), Fin(10), Fin(25), Fin(50), Fin(100), Fin(250), Fin(500),
      Fin(1000), Fin(2500), Fin(5000), Fin(10000)>>

ObservabilityRegistryNew == CreateRegistry

ObservabilityRegistryCounter(reg, hp, name, help) ==
    Wrapped(RegisterCounter(reg, hp, name, help), name, help)

ObservabilityRegistryGauge(reg, hp, name, help) ==
    Wrapped(RegisterGauge(reg, hp, name, help), name, help)

ObservabilityRegistryHistogramWithBuckets(reg, hp, name, help, buckets) ==
    Wrapped(RegisterHistogram(reg, hp, name, help, buckets), name, help)

ObservabilityRegistryHistogram(reg, hp, name, help) ==
    ObservabilityRegistryHistogramWithBuckets(reg, hp, name, help,
                                              DefaultLatencyBuckets)

ObservabilityRegistryRender(reg, hp) == RegistryRender(reg, hp)

\* impl HistogramTrait for Histogram: observe adds the value to the sum and
\* one to the count of the allocation the handle points to.
HistogramObserve(h, value) ==
    [h EXCEPT !.sum = F64Add(@, value), !.count = @ + 1]

\* Test helpers that would check the name the way the Prometheus backend does.
TestMetricValidated(hp, kind, name, description) ==
    IF ValidatePrometheusMetricName(name) # "Ok"
    THEN [heap |-> hp, metric |-> <<>>]
    ELSE [heap |-> MockNew(hp, kind).heap,
          metric |-> <<MetricNew(name, description, MockNew(hp, kind).ptr)>>]

\* test_counter / test_gauge / test_histogram:
\* Metric::new(name, description, Mock..::new()), whatever the name.
TestMetric(hp, kind, name, description) ==
    [heap |-> MockNew(hp, kind).heap,
     metric |-> <<MetricNew(name, description, MockNew(hp, kind).ptr)>>]

\* A get_histogram that reads the histogram's own sum and count.
GetHistogramReadsState(h) == [sum |-> h.sum, count |-> h.count]

\* HistogramTrait::get_histogram, the provided method: (0.0, 0).  Neither
\* MockHistogram nor the Prometheus Histogram overrides it.
HistogramTraitGetHistogram(h) == [sum |-> Fin(0), count |-> 0]

\* Metric::get_histogram: self.inner.get_histogram()
MetricGetHistogram(inner) == HistogramTraitGetHistogram(inner)

\* Metric::name() and Metric::description(): the strings kept since new().
MetricName(m) == m.name

MetricDescription(m) == m.description

\* Metric::inner(): the backend's handle.
MetricInner(m) == m.inner

\* MetricsRenderer::render returns a Result: a renderer other than the
\* Prometheus one may fail with its Error.
RenderFailed == [ok |-> FALSE, content_type |-> "", body |-> <<>>]

\* A bug a renderer could have: handing out what was collected and starting
\* every instrument again from its initial state (a delta exporter).
RenderAndReset(reg, hp) ==
    [out |-> RegistryRender(reg, hp),
     heap |-> [p \in DOMAIN hp |->
                  IF \E i \in DOMAIN reg : reg[i].ptr = p
                  THEN Cell(hp[p].kind,
                            IF hp[p].kind = "histogram"
                            THEN HistogramNew(hp[p].v.buckets) ELSE 0)
                  ELSE hp[p]]]

\* registry.render() takes &self: it returns the rendering and leaves every
\* instrument as it was.
RenderCall(reg, hp) == [out |-> ObservabilityRegistryRender(reg, hp), heap |-> hp]

(***************************************************************************)
(* http/health.rs: the two status enums.  The Option<String> reason is     *)
(* <<>> for None and <<s>> for Some(s).                                    *)
(***************************************************************************)
Healthy == [tag |-> "Healthy", reason |-> <<>>]

Unhealthy(reason) == [tag |-> "Unhealthy", reason |-> reason]

Ready == [tag |-> "Ready", reason |-> <<>>]

NotReady(reason) == [tag |-> "NotReady", reason |-> reason]

\* matches!(self, HealthStatus::Healthy)
HealthStatusIsHealthy(s) == s.tag = "Healthy"

\* A bug status_code could have: 503 only when a reason is given.
HealthStatusCodeNeedsReason(s) ==
    IF s.tag = "Healthy" \/ s.reason = <<>> THEN 200 ELSE 503

\* match self { Healthy => 200, Unhealthy(_) => 503 }
HealthStatusCode(s) == IF s.tag = "Healthy" THEN 200 ELSE 503

\* matches!(self, ReadinessStatus::Ready)
ReadinessStatusIsReady(s) == s.tag = "Ready"

\* match self { Ready => 200, NotReady(_) => 503 }
ReadinessStatusCode(s) == IF s.tag = "Ready" THEN 200 ELSE 503

\* A health check that reports the service unhealthy.
FailingHealthCheck == Unhealthy(<<>>)

DefaultHealthCheck == Healthy

DefaultReadinessCheck == Ready

(***************************************************************************)
(* http/standalone.rs: the server's state is the registry inside an        *)
(* Arc<tokio::sync::RwLock<..>>.  That lock is fair: a request that cannot *)
(* be granted at once joins a queue served oldest first, and a reader that *)
(* arrives while a writer is queued waits behind it.                       *)
(***************************************************************************)
Unlocked == [readers |-> {}, writer |-> {}]

Waiter(task, mode) == [task |-> task, mode |-> mode]

\* A lock that lets readers in whenever no writer holds it, queue or not.
ReadReadyPastWaiters(lk, q) == lk.writer = {}

\* read().await completes at once when no writer holds the lock and nobody waits.
ReadReady(lk, q) == lk.writer = {} /\ q = <<>>

\* write().await completes at once when nobody holds the lock and nobody waits.
WriteReady(lk, q) == lk.writer = {} /\ lk.readers = {} /\ q = <<>>

Locking(lk, q) == [lock |-> lk, waiters |-> q]

RwLockRead(lk, q, task) ==
    IF ReadReady(lk, q)
    THEN Locking([lk EXCEPT !.readers = @ \cup {task}], q)
    ELSE Locking(lk, Append(q, Waiter(task, "read")))

RwLockWrite(lk, q, task) ==
    IF WriteReady(lk, q)
    THEN Locking([lk EXCEPT !.writer = {task}], q)
    ELSE Locking(lk, Append(q, Waiter(task, "write")))

\* What a release hands on: the queue's oldest requests, as long as they fit.
RECURSIVE Wake(_, _)
Wake(lk, q) ==
    IF q = <<>> \/ lk.writer # {} THEN Locking(lk, q)
    ELSE IF Head(q).mode = "read"
    THEN Wake([lk EXCEPT !.readers = @ \cup {Head(q).task}], Tail(q))
    ELSE IF lk.readers = {}
    THEN Locking([lk EXCEPT !.writer = {Head(q).task}], Tail(q))
    ELSE Locking(lk, q)

\* Dropping a guard.
RwLockRelease(lk, q, task) ==
    Wake([readers |-> lk.readers \ {task}, writer |-> lk.writer \ {task}], q)

\* A handler that answers 200 whatever render() returned.
MetricsHandlerAlwaysOk(result) ==
    [status |-> 200, content_type |-> result.content_type,
     body |-> result.body, text |-> <<>>]

\* metrics_handler, after the read lock is taken: the rendering with its own
\* content type, or 500 with the error's text.
MetricsHandler(result) ==
    IF result.ok
    THEN [status |-> 200, content_type |-> result.content_type,
          body |-> result.body, text |-> <<>>]
    ELSE [status |-> 500, content_type |-> "text/plain; charset=utf-8",
          body |-> <<>>, text |-> <<"Failed to render metrics: ", "an error occurred when formatting an argument">>]

\* A metric that could be used only while nobody holds the registry's lock.
MutationReadyWhenUnlocked(lk) == lk.writer = {} /\ lk.readers = {}

\* Metric::inc and the other mutations call the instrument directly: the
\* lock around the registry plays no part.
MutationReady(lk) == TRUE

(***************************************************************************)
(* Inputs.                                                                 *)
(***************************************************************************)
IncByArgs == {0, 1, 2, U64Max}
GaugeArgs == {I64Min, -1, 0, 1, I64Max}
Threads == 1 .. NumThreads
Kinds == {"counter", "gauge", "histogram"}
ObsVals == {Fin(100), Fin(200), Fin(300), Fin(-500), NaN, PosInf, NegInf}
HandleObsVals == {Fin(100), Fin(200)}
HandleSetVals == {-1, I64Max}
Chars == {"a", "Z", "5", "_", "-", ":", "."}
AllNames == UNION {[1 .. n -> Chars] : n \in 0 .. MaxNameLen}
BucketVals == {NaN, PosInf, NegInf, Fin(-1000), Fin(0), Fin(500), Fin(1000)}
AllBuckets == UNION {[1 .. n -> BucketVals] : n \in 0 .. MaxBuckets}
SampleNames == {<<"a">>, <<"5">>}
SampleBuckets == {<<>>, <<Fin(1000)>>, <<NaN>>}
RegNames == {<<"a">>, <<"_", "5">>, <<>>, <<"a", "-">>}
RegBuckets == {<<>>, <<Fin(500), Fin(1000)>>, <<Fin(1000), Fin(500)>>, <<NaN>>}
Helps == {"help"}
RegisterOps == {"counter", "gauge", "histogram", "histogram_with_buckets"}
Scrapers == {"s1", "s2"}
Registrars == {"r1"}
Tasks == Scrapers \cup Registrars
Reasons == {"", "db down", "starting", "draining", "disk full", "timeout"}
HealthStatuses == {Healthy, Unhealthy(<<>>)} \cup {Unhealthy(<<r>>) : r \in Reasons}
ReadinessStatuses == {Ready, NotReady(<<>>)} \cup {NotReady(<<r>>) : r \in Reasons}

Request(op, name, help, buckets) ==
    [op |-> op, name |-> name, help |-> help, buckets |-> buckets]

NoCall == Request("none", <<>>, "", <<>>)
Pending == [ok |-> FALSE, err |-> "pending", metric |-> <<>>]

\* The calls tried on a fresh registry: every name with a few bucket lists,
\* and every bucket list with a few names.
Requests ==
    {Request(op, n, h, <<>>) : op \in {"counter", "gauge", "histogram"},
                               n \in AllNames, h \in Helps}
    \cup {Request("histogram_with_buckets", n, "help", b) :
              n \in AllNames, b \in SampleBuckets}
    \cup {Request("histogram_with_buckets", n, "help", b) :
              n \in SampleNames, b \in AllBuckets}

Call(op, arg) == [op |-> op, arg |-> arg]

(***************************************************************************)
(* Idle values of the parts a specification does not exercise.             *)
(***************************************************************************)
CounterInit ==
    /\ cval = MockCounterNew
    /\ clog = <<>>
    /\ creads = <<>>

ThreadIdle ==
    /\ tstate = [t \in Threads |-> "unspawned"]
    /\ tdone = [t \in Threads |-> 0]
    /\ mainPc = "spawn"
    /\ mainIdx = 1
    /\ tfinal = <<>>

GaugeInit ==
    /\ gval = MockGaugeNew
    /\ glog = <<>>

HandleInit ==
    /\ heap = <<>>
    /\ handles = <<>>
    /\ horigin = <<>>
    /\ hlast = 0
    /\ hops = 0

RegistryInit ==
    /\ registry = ObservabilityRegistryNew
    /\ nCalls = 0
    /\ lastCall = NoCall
    /\ lastResult = Pending

HistInit ==
    /\ hobs = MockHistogramNew
    /\ obsN = 0
    /\ obsTotal = 0
    /\ obsSaw = {}

ExposeInit ==
    /\ metrics = <<>>
    /\ nMut = 0
    /\ rendered = <<>>
    /\ quiet = FALSE

\* StandaloneServerBuilder::build: the new registry behind an unheld RwLock,
\* no task started and no request answered.
ServerInit ==
    /\ lock = Unlocked
    /\ waiters = <<>>
    /\ pc = [t \in Tasks |-> "idle"]
    /\ response = <<>>
    /\ heldAtMut = <<>>
    /\ probe = <<>>

StatusInit ==
    /\ hstatus = DefaultHealthCheck
    /\ rstatus = DefaultReadinessCheck
    /\ hanswer = <<>>
    /\ ranswer = <<>>

HelperInit == free = <<>>

Idle == CounterInit /\ ThreadIdle /\ GaugeInit /\ HandleInit /\ HistInit
            /\ ExposeInit /\ ServerInit /\ HelperInit

\* The state before any instrument is used and any registration is made.
Init == Idle /\ RegistryInit /\ StatusInit

(***************************************************************************)
(* A single counter used from one thread (test_counter, then any calls).   *)
(***************************************************************************)
CounterInc ==
    /\ Len(clog) < MaxOps
    /\ cval' = MetricInc(cval)
    /\ clog' = Append(clog, Call("inc", 1))
    /\ UNCHANGED <<creads, threadVars, gaugeVars, handleVars, histVars, registryVars,
                 exposeVars, serverVars, statusVars, helperVars>>

CounterIncBy ==
    \E n \in IncByArgs :
        /\ Len(clog) < MaxOps
        /\ cval' = MetricIncBy(cval, n)
        /\ clog' = Append(clog, Call("inc_by", n))
        /\ UNCHANGED <<creads, threadVars, gaugeVars, handleVars, histVars, registryVars,
                 exposeVars, serverVars, statusVars, helperVars>>

CounterReset ==
    /\ Len(clog) < MaxOps
    /\ cval' = MockCounterReset(cval)
    /\ clog' = Append(clog, Call("reset", 0))
    /\ UNCHANGED <<creads, threadVars, gaugeVars, handleVars, histVars, registryVars,
                 exposeVars, serverVars, statusVars, helperVars>>

CounterRead ==
    /\ Len(creads) < MaxReads
    /\ creads' = Append(creads, MetricGetCounter(cval))
    /\ UNCHANGED <<cval, clog, threadVars, gaugeVars, handleVars, histVars, registryVars,
                 exposeVars, serverVars, statusVars, helperVars>>

CounterNext == CounterInc \/ CounterIncBy \/ CounterReset \/ CounterRead

SpecCounter == Init /\ [][CounterNext]_vars

(***************************************************************************)
(* test_counter_is_thread_safe: the main thread spawns the threads, each   *)
(* thread calls inc() IncsPerThread times, the main thread joins them in   *)
(* order and reads the counter.                                            *)
(***************************************************************************)
MainSpawn ==
    /\ mainPc = "spawn"
    /\ tstate' = [tstate EXCEPT ![mainIdx] = "running"]
    /\ IF mainIdx = NumThreads
       THEN mainPc' = "join" /\ mainIdx' = 1
       ELSE mainPc' = mainPc /\ mainIdx' = mainIdx + 1
    /\ UNCHANGED <<tdone, tfinal, counterVars, gaugeVars, handleVars, histVars, registryVars,
                 exposeVars, serverVars, statusVars, helperVars>>

ThreadInc(t) ==
    /\ tstate[t] = "running"
    /\ tdone[t] < IncsPerThread
    /\ cval' = MetricInc(cval)
    /\ tdone' = [tdone EXCEPT ![t] = @ + 1]
    /\ UNCHANGED <<tstate, mainPc, mainIdx, tfinal, clog, creads, gaugeVars, handleVars, histVars, registryVars,
                 exposeVars, serverVars, statusVars, helperVars>>

ThreadExit(t) ==
    /\ tstate[t] = "running"
    /\ tdone[t] = IncsPerThread
    /\ tstate' = [tstate EXCEPT ![t] = "finished"]
    /\ UNCHANGED <<tdone, mainPc, mainIdx, tfinal, counterVars, gaugeVars, handleVars, histVars, registryVars,
                 exposeVars, serverVars, statusVars, helperVars>>

MainJoin ==
    /\ mainPc = "join"
    /\ tstate[mainIdx] = "finished"
    /\ IF mainIdx = NumThreads
       THEN mainPc' = "read" /\ mainIdx' = mainIdx
       ELSE mainPc' = mainPc /\ mainIdx' = mainIdx + 1
    /\ UNCHANGED <<tstate, tdone, tfinal, counterVars, gaugeVars, handleVars, histVars, registryVars,
                 exposeVars, serverVars, statusVars, helperVars>>

MainRead ==
    /\ mainPc = "read"
    /\ tfinal' = <<MetricGetCounter(cval)>>
    /\ mainPc' = "done"
    /\ UNCHANGED <<tstate, tdone, mainIdx, counterVars, gaugeVars, handleVars, histVars, registryVars,
                 exposeVars, serverVars, statusVars, helperVars>>

ThreadsStep == \E t \in Threads : ThreadInc(t) \/ ThreadExit(t)

ThreadsNext == MainSpawn \/ ThreadsStep \/ MainJoin \/ MainRead

SpecThreads == Init /\ [][ThreadsNext]_vars

(***************************************************************************)
(* A single gauge used from one thread.                                    *)
(***************************************************************************)
GaugeSet ==
    \E v \in GaugeArgs :
        /\ Len(glog) < MaxOps
        /\ gval' = MetricSet(gval, v)
        /\ glog' = Append(glog, Call("set", v))
        /\ UNCHANGED <<counterVars, threadVars, handleVars, histVars, registryVars,
                 exposeVars, serverVars, statusVars, helperVars>>

GaugeInc ==
    /\ Len(glog) < MaxOps
    /\ gval' = MetricGaugeInc(gval)
    /\ glog' = Append(glog, Call("inc", 1))
    /\ UNCHANGED <<counterVars, threadVars, handleVars, histVars, registryVars,
                 exposeVars, serverVars, statusVars, helperVars>>

GaugeIncBy ==
    \E n \in GaugeArgs :
        /\ Len(glog) < MaxOps
        /\ gval' = MetricGaugeIncBy(gval, n)
        /\ glog' = Append(glog, Call("inc_by", n))
        /\ UNCHANGED <<counterVars, threadVars, handleVars, histVars, registryVars,
                 exposeVars, serverVars, statusVars, helperVars>>

GaugeDec ==
    /\ Len(glog) < MaxOps
    /\ gval' = MetricDec(gval)
    /\ glog' = Append(glog, Call("dec", 1))
    /\ UNCHANGED <<counterVars, threadVars, handleVars, histVars, registryVars,
                 exposeVars, serverVars, statusVars, helperVars>>

GaugeDecBy ==
    \E n \in GaugeArgs :
        /\ Len(glog) < MaxOps
        /\ gval' = MetricDecBy(gval, n)
        /\ glog' = Append(glog, Call("dec_by", n))
        /\ UNCHANGED <<counterVars, threadVars, handleVars, histVars, registryVars,
                 exposeVars, serverVars, statusVars, helperVars>>

GaugeNext == GaugeSet \/ GaugeInc \/ GaugeIncBy \/ GaugeDec \/ GaugeDecBy

SpecGauge == Init /\ [][GaugeNext]_vars

(***************************************************************************)
(* Handles: instruments are created, their handles cloned, and every       *)
(* handle is used to mutate the instrument it points to.                   *)
(***************************************************************************)
OfKind(h, kind) == heap[handles[h]].kind = kind

HandleNew ==
    \E kind \in Kinds :
        /\ Len(handles) < MaxHandles
        /\ LET r == MockNew(heap, kind)
           IN  /\ heap' = r.heap
               /\ handles' = Append(handles, r.ptr)
               /\ horigin' = Append(horigin, Len(handles) + 1)
        /\ UNCHANGED <<hlast, hops, counterVars, threadVars, gaugeVars, histVars, registryVars,
                 exposeVars, serverVars, statusVars, helperVars>>

HandleClone ==
    \E h \in DOMAIN handles :
        /\ Len(handles) < MaxHandles
        /\ LET r == DeriveClone(heap, handles[h])
           IN  /\ heap' = r.heap
               /\ handles' = Append(handles, r.ptr)
               /\ horigin' = Append(horigin, horigin[h])
        /\ UNCHANGED <<hlast, hops, counterVars, threadVars, gaugeVars, histVars, registryVars,
                 exposeVars, serverVars, statusVars, helperVars>>

HandleMutate(h, v) ==
    /\ hops < MaxHandleOps
    /\ heap' = [heap EXCEPT ![handles[h]].v = v]
    /\ hlast' = h
    /\ hops' = hops + 1
    /\ UNCHANGED <<handles, horigin, counterVars, threadVars, gaugeVars, histVars, registryVars,
                 exposeVars, serverVars, statusVars, helperVars>>

HandleInc ==
    \E h \in DOMAIN handles :
        /\ OfKind(h, "counter")
        /\ HandleMutate(h, MockCounterInc(heap[handles[h]].v))

HandleSet ==
    \E h \in DOMAIN handles : \E v \in HandleSetVals :
        /\ OfKind(h, "gauge")
        /\ HandleMutate(h, MockGaugeSet(heap[handles[h]].v, v))

HandleDec ==
    \E h \in DOMAIN handles :
        /\ OfKind(h, "gauge")
        /\ HandleMutate(h, MockGaugeDec(heap[handles[h]].v))

HandleObserve ==
    \E h \in DOMAIN handles : \E v \in HandleObsVals :
        /\ OfKind(h, "histogram")
        /\ HandleMutate(h, MockHistogramObserve(heap[handles[h]].v, v))

HandlesNext ==
    HandleNew \/ HandleClone \/ HandleInc \/ HandleSet \/ HandleDec \/ HandleObserve

SpecHandles == Init /\ [][HandlesNext]_vars

(***************************************************************************)
(* A single mock histogram: test_histogram, then observe() calls.          *)
(***************************************************************************)
HistObserve ==
    \E v \in ObsVals :
        /\ obsN < MaxObs
        /\ hobs' = MetricObserve(hobs, v)
        /\ obsN' = obsN + 1
        /\ obsTotal' = IF F64IsFinite(v) THEN obsTotal + v.v ELSE obsTotal
        /\ obsSaw' = IF F64IsFinite(v) THEN obsSaw ELSE obsSaw \cup {v}
        /\ UNCHANGED <<counterVars, threadVars, gaugeVars, handleVars, registryVars,
                 exposeVars, serverVars, statusVars, helperVars>>

HistNext == HistObserve

SpecHistogram == Init /\ [][HistNext]_vars

(***************************************************************************)
(* The registry: PrometheusRegistry::new(), then registration calls.       *)
(***************************************************************************)
\* One registration call: the registry and the heap become what the call
\* left, and the call and its result are recorded.
Registration(req, r) ==
    /\ registry' = r.registry
    /\ heap' = r.heap
    /\ nCalls' = nCalls + 1
    /\ lastCall' = req
    /\ lastResult' = r.result
    /\ metrics' = metrics \o r.result.metric
    /\ quiet' = FALSE

Registered(req, r) ==
    /\ Registration(req, r)
    /\ UNCHANGED <<handles, horigin, hlast, hops, nMut, rendered,
                   counterVars, threadVars, gaugeVars, histVars,
                   serverVars, statusVars, helperVars>>

CallCounter(name, help) ==
    Registered(Request("counter", name, help, <<>>),
               ObservabilityRegistryCounter(registry, heap, name, help))

CallGauge(name, help) ==
    Registered(Request("gauge", name, help, <<>>),
               ObservabilityRegistryGauge(registry, heap, name, help))

CallHistogram(name, help) ==
    Registered(Request("histogram", name, help, <<>>),
               ObservabilityRegistryHistogram(registry, heap, name, help))

CallHistogramWithBuckets(name, help, buckets) ==
    Registered(Request("histogram_with_buckets", name, help, buckets),
               ObservabilityRegistryHistogramWithBuckets(registry, heap, name,
                                                         help, buckets))

RegistryCounter ==
    \E name \in RegNames : \E help \in Helps :
        nCalls < MaxCalls /\ CallCounter(name, help)

RegistryGauge ==
    \E name \in RegNames : \E help \in Helps :
        nCalls < MaxCalls /\ CallGauge(name, help)

RegistryHistogram ==
    \E name \in RegNames : \E help \in Helps :
        nCalls < MaxCalls /\ CallHistogram(name, help)

RegistryHistogramWithBuckets ==
    \E name \in RegNames : \E help \in Helps : \E buckets \in RegBuckets :
        nCalls < MaxCalls /\ CallHistogramWithBuckets(name, help, buckets)

RegistryNext ==
    RegistryCounter \/ RegistryGauge \/ RegistryHistogram
        \/ RegistryHistogramWithBuckets

SpecRegistry == Init /\ [][RegistryNext]_vars

(***************************************************************************)
(* Validation: one registration call, with any arguments up to the bounds, *)
(* on a fresh registry (the shape of the backend's validation_* tests).    *)
(***************************************************************************)
ValidationInit ==
    /\ registry = ObservabilityRegistryNew
    /\ nCalls = 0
    /\ lastCall \in Requests
    /\ lastResult = Pending

TryCounter ==
    /\ lastResult = Pending
    /\ lastCall.op = "counter"
    /\ CallCounter(lastCall.name, lastCall.help)

TryGauge ==
    /\ lastResult = Pending
    /\ lastCall.op = "gauge"
    /\ CallGauge(lastCall.name, lastCall.help)

TryHistogram ==
    /\ lastResult = Pending
    /\ lastCall.op = "histogram"
    /\ CallHistogram(lastCall.name, lastCall.help)

TryHistogramWithBuckets ==
    /\ lastResult = Pending
    /\ lastCall.op = "histogram_with_buckets"
    /\ CallHistogramWithBuckets(lastCall.name, lastCall.help, lastCall.buckets)

ValidationNext ==
    TryCounter \/ TryGauge \/ TryHistogram \/ TryHistogramWithBuckets

ValidationSpecInit == Idle /\ ValidationInit /\ StatusInit

SpecValidation == ValidationSpecInit /\ [][ValidationNext]_vars

(***************************************************************************)
(* Exposition: registrations on one registry, use of the metrics they      *)
(* returned, and render() calls, in any order.                             *)
(***************************************************************************)
KindOf(k) == heap[MetricInner(metrics[k])].kind

ValueOf(k) == heap[MetricInner(metrics[k])].v

\* One mutation through the k-th metric the caller holds.
Mutation(k, v) ==
    /\ nMut < MaxMutations
    /\ heap' = [heap EXCEPT ![MetricInner(metrics[k])].v = v]
    /\ nMut' = nMut + 1
    /\ quiet' = FALSE
    /\ UNCHANGED <<registryVars, metrics, rendered, handles, horigin, hlast, hops,
                   counterVars, threadVars, gaugeVars, histVars, statusVars, helperVars>>

UseCounter ==
    \E k \in DOMAIN metrics :
        /\ KindOf(k) = "counter"
        /\ Mutation(k, MetricInc(ValueOf(k)))
        /\ UNCHANGED serverVars

UseGauge ==
    \E k \in DOMAIN metrics :
        /\ KindOf(k) = "gauge"
        /\ Mutation(k, MetricDec(ValueOf(k)))
        /\ UNCHANGED serverVars

UseHistogram ==
    \E k \in DOMAIN metrics :
        /\ KindOf(k) = "histogram"
        /\ Mutation(k, HistogramObserve(ValueOf(k), Fin(250)))
        /\ UNCHANGED serverVars

\* registry.render(): the result is kept next to the one before it, with a
\* note of whether anything happened between the two.
Render ==
    LET r == RenderCall(registry, heap)
        before == IF rendered = <<>> THEN <<>> ELSE <<rendered[Len(rendered)]>>
    IN  /\ rendered' = before \o <<[out |-> r.out, consecutive |-> quiet]>>
        /\ heap' = r.heap
        /\ quiet' = TRUE
        /\ UNCHANGED <<registryVars, metrics, nMut, handles, horigin, hlast, hops,
                       counterVars, threadVars, gaugeVars, histVars,
                       serverVars, statusVars, helperVars>>

ExposeCounter ==
    \E name \in SampleNames : \E help \in Helps :
        nCalls < MaxCalls /\ CallCounter(name, help)

ExposeGauge ==
    \E name \in SampleNames : \E help \in Helps :
        nCalls < MaxCalls /\ CallGauge(name, help)

ExposeHistogram ==
    \E name \in SampleNames : \E help \in Helps :
        nCalls < MaxCalls /\ CallHistogram(name, help)

ExposeHistogramWithBuckets ==
    \E name \in SampleNames : \E help \in Helps : \E buckets \in SampleBuckets :
        nCalls < MaxCalls /\ CallHistogramWithBuckets(name, help, buckets)

ExposeNext ==
    ExposeCounter \/ ExposeGauge \/ ExposeHistogram
        \/ ExposeHistogramWithBuckets
        \/ UseCounter \/ UseGauge \/ UseHistogram \/ Render

SpecExpose == Init /\ [][ExposeNext]_vars

(***************************************************************************)
(* The standalone server: tasks serving GET /metrics, a task registering   *)
(* counters through registry().write(), and the program using the counters *)
(* it was given.  The handler is generic over the backend, so render() may *)
(* also return its error.                                                  *)
(***************************************************************************)
Positions(lk, q) ==
    [t \in Tasks |->
        IF t \in lk.readers \cup lk.writer THEN "locked"
        ELSE IF \E i \in DOMAIN q : q[i].task = t THEN "queued"
        ELSE "idle"]

LockStep(a) ==
    /\ lock' = a.lock
    /\ waiters' = a.waiters
    /\ pc' = Positions(a.lock, a.waiters)

\* metrics_handler up to state.registry.read().await
MetricsRequest(t) ==
    /\ pc[t] = "idle"
    /\ LockStep(RwLockRead(lock, waiters, t))
    /\ UNCHANGED <<response, heldAtMut, probe, heap, handles, horigin, hlast, hops,
                   counterVars, threadVars, gaugeVars, histVars, registryVars,
                   exposeVars, statusVars, helperVars>>

\* metrics_handler from there: render, build the response, drop the guard.
MetricsRespond(t) ==
    /\ pc[t] = "locked"
    /\ \E result \in {RenderCall(registry, heap).out, RenderFailed} :
           response' = <<[result |-> result, sent |-> MetricsHandler(result)]>>
    /\ heap' = RenderCall(registry, heap).heap
    /\ LockStep(RwLockRelease(lock, waiters, t))
    /\ UNCHANGED <<heldAtMut, probe, handles, horigin, hlast, hops,
                   counterVars, threadVars, gaugeVars, histVars, registryVars,
                   exposeVars, statusVars, helperVars>>

\* server.registry().write().await
RegisterRequest(t) ==
    /\ pc[t] = "idle"
    /\ nCalls < MaxCalls
    /\ LockStep(RwLockWrite(lock, waiters, t))
    /\ UNCHANGED <<response, heldAtMut, probe, heap, handles, horigin, hlast, hops,
                   counterVars, threadVars, gaugeVars, histVars, registryVars,
                   exposeVars, statusVars, helperVars>>

\* .counter(name, help) on the write guard, which is then dropped.
RegisterRespond(t) ==
    /\ pc[t] = "locked"
    /\ \E name \in SampleNames : \E help \in Helps :
           Registration(Request("counter", name, help, <<>>),
                        ObservabilityRegistryCounter(registry, heap, name, help))
    /\ LockStep(RwLockRelease(lock, waiters, t))
    /\ UNCHANGED <<response, heldAtMut, probe, nMut, rendered, handles, horigin, hlast,
                   hops, counterVars, threadVars, gaugeVars, histVars, statusVars, helperVars>>

\* inc() on a counter the program was given, whatever the lock's state.
ServerUse ==
    \E k \in DOMAIN metrics :
        /\ MutationReady(lock)
        /\ Mutation(k, MetricInc(ValueOf(k)))
        /\ heldAtMut' = <<lock>>
        /\ UNCHANGED <<lock, waiters, pc, response, probe>>

ServerNext ==
    \/ \E t \in Scrapers : MetricsRequest(t) \/ MetricsRespond(t)
    \/ \E t \in Registrars : RegisterRequest(t) \/ RegisterRespond(t)
    \/ ServerUse

SpecServer == Init /\ [][ServerNext]_vars

\* A task that holds the lock runs on: the handler and the registering task
\* have no await between taking the guard and dropping it.
ServerFairness ==
    /\ \A t \in Scrapers : WF_vars(MetricsRespond(t))
    /\ \A t \in Registrars : WF_vars(RegisterRespond(t))

SpecServerFair == Init /\ [][ServerNext]_vars /\ ServerFairness

(***************************************************************************)
(* The server's other two routes, served next to everything above.         *)
(***************************************************************************)
Probed(route, code) ==
    /\ probe' = <<[route |-> route, status |-> code, body |-> "OK", held |-> lock]>>
    /\ UNCHANGED <<lock, waiters, pc, response, heldAtMut, heap, handles, horigin,
                   hlast, hops, counterVars, threadVars, gaugeVars, histVars,
                   registryVars, exposeVars, statusVars, helperVars>>

\* health_handler: the default check's status code and "OK".
HealthHandler == Probed("health", HealthStatusCode(DefaultHealthCheck))

\* ready_handler: the default check's status code and "OK".
ReadyHandler == Probed("ready", ReadinessStatusCode(DefaultReadinessCheck))

ProbesNext == ServerNext \/ HealthHandler \/ ReadyHandler

SpecProbes == Init /\ [][ProbesNext]_vars

(***************************************************************************)
(* Free helpers: next to a registry with metrics in it, the caller builds  *)
(* metrics with the helper functions of the two backend modules and uses   *)
(* them.                                                                   *)
(***************************************************************************)
FreeInner(i) == MetricInner(free[i].metric)

FreeValue(i) == heap[FreeInner(i)].v

\* A helper returned its metric: the caller keeps it, with the helper's name.
Created(made, r) ==
    /\ Len(free) < MaxFree
    /\ r.metric # <<>>
    /\ free' = Append(free, [made |-> made, metric |-> r.metric[1]])
    /\ heap' = r.heap
    /\ UNCHANGED <<registryVars, exposeVars, handles, horigin, hlast, hops,
                   counterVars, threadVars, gaugeVars, histVars,
                   serverVars, statusVars>>

\* One mutation through the i-th metric a helper returned.
FreeMutation(i, v) ==
    /\ nMut < MaxMutations
    /\ heap' = [heap EXCEPT ![FreeInner(i)].v = v]
    /\ nMut' = nMut + 1
    /\ UNCHANGED <<registryVars, metrics, rendered, quiet, handles, horigin, hlast,
                   hops, counterVars, threadVars, gaugeVars, histVars,
                   serverVars, statusVars, helperVars>>

TestCounter ==
    \E name \in SampleNames :
        Created("test_counter", TestMetric(heap, "counter", name, "help"))

TestGauge == Created("test_gauge", TestMetric(heap, "gauge", <<"a">>, "help"))

TestHistogram ==
    Created("test_histogram", TestMetric(heap, "histogram", <<"a">>, "help"))

\* counter(name, description): Metric::new(.., Counter::default()).
HelperCounter ==
    LET c == CounterDefault(heap)
    IN  Created("counter",
                [heap |-> c.heap, metric |-> <<MetricNew(<<"a">>, "help", c.ptr)>>])

\* gauge(name, description): Metric::new(.., Gauge::default()).
HelperGauge ==
    LET g == GaugeDefault(heap)
    IN  Created("gauge",
                [heap |-> g.heap, metric |-> <<MetricNew(<<"a">>, "help", g.ptr)>>])

\* histogram_with_buckets(name, description, buckets):
\* Metric::new(.., Histogram::new(buckets)), whatever the buckets.
HelperHistogramWithBuckets ==
    Created("histogram_with_buckets",
            [heap |-> Append(heap, Cell("histogram", HistogramNew(<<NaN>>))),
             metric |-> <<MetricNew(<<"a">>, "help", Len(heap) + 1)>>])

UseFreeCounter ==
    \E i \in DOMAIN free :
        /\ free[i].made \in {"test_counter", "counter"}
        /\ FreeMutation(i, MetricInc(FreeValue(i)))

UseFreeGauge ==
    \E i \in DOMAIN free :
        /\ free[i].made \in {"test_gauge", "gauge"}
        /\ FreeMutation(i, MetricDec(FreeValue(i)))

UseFreeHistogram ==
    \E i \in DOMAIN free :
        \/ /\ free[i].made = "test_histogram"
           /\ FreeMutation(i, MetricObserve(FreeValue(i), Fin(250)))
        \/ /\ free[i].made = "histogram_with_buckets"
           /\ FreeMutation(i, HistogramObserve(FreeValue(i), Fin(250)))

HelpersNext ==
    ExposeCounter \/ TestCounter \/ TestGauge \/ TestHistogram
        \/ HelperCounter \/ HelperGauge \/ HelperHistogramWithBuckets
        \/ UseFreeCounter \/ UseFreeGauge \/ UseFreeHistogram

SpecHelpers == Init /\ [][HelpersNext]_vars

(***************************************************************************)
(* Status codes: a check has produced any status, and its is_healthy() or  *)
(* is_ready() and its status_code() are asked for.                         *)
(***************************************************************************)
StatusDrawn ==
    /\ hstatus \in HealthStatuses
    /\ rstatus \in ReadinessStatuses
    /\ hanswer = <<>>
    /\ ranswer = <<>>

AskHealth ==
    /\ hanswer = <<>>
    /\ hanswer' = <<[healthy |-> HealthStatusIsHealthy(hstatus),
                     code |-> HealthStatusCode(hstatus)]>>
    /\ UNCHANGED <<hstatus, rstatus, ranswer, heap, handles, horigin, hlast, hops,
                   counterVars, threadVars, gaugeVars, histVars, registryVars,
                   exposeVars, serverVars, helperVars>>

AskReadiness ==
    /\ ranswer = <<>>
    /\ ranswer' = <<[ready |-> ReadinessStatusIsReady(rstatus),
                     code |-> ReadinessStatusCode(rstatus)]>>
    /\ UNCHANGED <<hstatus, rstatus, hanswer, heap, handles, horigin, hlast, hops,
                   counterVars, threadVars, gaugeVars, histVars, registryVars,
                   exposeVars, serverVars, helperVars>>

StatusNext == AskHealth \/ AskReadiness

StatusSpecInit == Idle /\ RegistryInit /\ StatusDrawn

SpecStatus == StatusSpecInit /\ [][StatusNext]_vars

(***************************************************************************)
(* C1. A fresh counter incremented by n reads back n, and k calls of inc() *)
(* leave the value that one inc_by(k) leaves.                              *)
(***************************************************************************)
OnlyIncs(log) == \A i \in 1 .. Len(log) : log[i].op = "inc"

CounterIncByReadsBack ==
    /\ \A n \in IncByArgs :
           clog = <<Call("inc_by", n)>> => MetricGetCounter(cval) = n
    /\ OnlyIncs(clog) =>
           MetricGetCounter(cval)
               = MetricGetCounter(MetricIncBy(MockCounterNew, Len(clog)))

WitnessCounterIncs == Len(clog) = MaxOps /\ OnlyIncs(clog) /\ cval = MaxOps

(***************************************************************************)
(* C2. After every thread has made its IncsPerThread calls of inc() and    *)
(* has been joined, the counter reads NumThreads * IncsPerThread.          *)
(***************************************************************************)
NoLostIncrement ==
    mainPc = "done" => tfinal = <<NumThreads * IncsPerThread>>

WitnessThreadsJoined ==
    /\ mainPc = "done"
    /\ \A t \in Threads : tstate[t] = "finished" /\ tdone[t] = IncsPerThread

(***************************************************************************)
(* C3. Every read of a counter returns at least what every earlier read    *)
(* returned.                                                               *)
(***************************************************************************)
CounterReadsNonDecreasing ==
    \A i \in 1 .. Len(creads) : \A j \in i .. Len(creads) :
        creads[i] <= creads[j]

(***************************************************************************)
(* C4. Without overflow, a gauge that started at 0 reads the value got by  *)
(* applying the effects of the calls in order.                             *)
(***************************************************************************)
GaugeEffect(acc, c) ==
    CASE c.op = "set" -> c.arg
      [] c.op = "inc" -> acc + 1
      [] c.op = "inc_by" -> acc + c.arg
      [] c.op = "dec" -> acc - 1
      [] c.op = "dec_by" -> acc - c.arg

RECURSIVE EffectsInOrder(_, _)
EffectsInOrder(log, acc) ==
    IF log = <<>> THEN acc
    ELSE EffectsInOrder(Tail(log), GaugeEffect(acc, Head(log)))

NoGaugeOverflow(log) ==
    \A k \in 0 .. Len(log) : EffectsInOrder(SubSeq(log, 1, k), 0) \in I64

GaugeReadsEffectsInOrder ==
    NoGaugeOverflow(glog) => MetricGetGauge(gval) = EffectsInOrder(glog, 0)

WitnessGaugeSetIncDec ==
    /\ Len(glog) = MaxOps
    /\ glog[1].op = "set" /\ glog[1].arg = 1
    /\ glog[2].op = "dec_by" /\ glog[2].arg = -1
    /\ glog[3].op = "dec"
    /\ gval = 1

(***************************************************************************)
(* C5. A gauge update that leaves the signed range wraps: the value stays  *)
(* in range and is congruent, modulo 2^WordBits, to the exact result, for  *)
(* inc, inc_by, dec and dec_by alike.                                      *)
(***************************************************************************)
RECURSIVE WrappedEffects(_, _)
WrappedEffects(log, acc) ==
    IF log = <<>> THEN acc
    ELSE LET exact == GaugeEffect(acc, Head(log))
             twos == IF exact > I64Max THEN exact - U64Modulus
                     ELSE IF exact < I64Min THEN exact + U64Modulus
                     ELSE exact
         IN  WrappedEffects(Tail(log), twos)

GaugeOverflowWraps ==
    /\ gval \in I64
    /\ MetricGetGauge(gval) = WrappedEffects(glog, 0)

WitnessGaugeWrapped ==
    /\ ~NoGaugeOverflow(glog)
    /\ \E i \in 1 .. Len(glog) : glog[i].op = "dec_by"
    /\ \E i \in 1 .. Len(glog) : glog[i].op = "inc"
    /\ gval = I64Min

(***************************************************************************)
(* C6. Every two handles that are clones of one another (that descend from *)
(* the same new()) read the same value, whichever of them the mutations    *)
(* went through.                                                           *)
(***************************************************************************)
ClonesShareState ==
    \A h1 \in DOMAIN handles : \A h2 \in DOMAIN handles :
        horigin[h1] = horigin[h2]
            => HandleRead(heap, handles[h1]) = HandleRead(heap, handles[h2])

WitnessMutatedThroughClone ==
    \E h1 \in DOMAIN handles : \E h2 \in DOMAIN handles :
        /\ h1 < h2
        /\ horigin[h1] = horigin[h2]
        /\ hlast = h2
        /\ OfKind(h1, "counter")
        /\ HandleRead(heap, handles[h1]) = 1

(***************************************************************************)
(* C7. After the observations v1..vn of a fresh mock histogram, count() is *)
(* n and sum() is v1 + ... + vn: the exact total when all are finite, NaN  *)
(* when a NaN or both infinities were observed, else the infinity seen.    *)
(***************************************************************************)
TotalObserved ==
    IF NaN \in obsSaw \/ {PosInf, NegInf} \subseteq obsSaw THEN NaN
    ELSE IF PosInf \in obsSaw THEN PosInf
    ELSE IF NegInf \in obsSaw THEN NegInf
    ELSE Fin(obsTotal)

HistogramCountAndSum ==
    /\ MockHistogramCount(hobs) = obsN
    /\ MockHistogramSum(hobs) = TotalObserved

WitnessThreeObserved ==
    /\ obsN = 3
    /\ hobs = <<Fin(100), Fin(200), Fin(300)>>
    /\ MockHistogramSum(hobs) = Fin(600)

(***************************************************************************)
(* C8. A registration of a counter, a gauge or a histogram is rejected     *)
(* with InvalidNamingConvention exactly when its name is not               *)
(* [A-Za-z_][A-Za-z0-9_]*; a counter or gauge with such a name succeeds.   *)
(***************************************************************************)
MatchesNameGrammar(name) ==
    /\ Len(name) >= 1
    /\ name[1] \in AsciiLetters \cup {"_"}
    /\ \A i \in 2 .. Len(name) : name[i] \in AsciiLetters \cup AsciiDigits \cup {"_"}

Returned == lastResult # Pending

BucketsWellFormed(b) ==
    /\ \A i \in 1 .. Len(b) : b[i].k = "fin" /\ b[i].v >= 0
    /\ \A i \in 2 .. Len(b) : b[i - 1].v < b[i].v

BucketsDecideRegistration ==
    (/\ Returned
     /\ lastCall.op = "histogram_with_buckets"
     /\ MatchesNameGrammar(lastCall.name))
        => /\ lastResult.ok <=> BucketsWellFormed(lastCall.buckets)
           /\ ~lastResult.ok => lastResult.err = "InvalidHistogramBuckets"

WitnessUnsortedBucketsRejected ==
    /\ Returned
    /\ lastCall.op = "histogram_with_buckets"
    /\ lastCall.name = <<"a">>
    /\ lastCall.buckets = <<Fin(1000), Fin(500), Fin(1000)>>
    /\ lastResult.err = "InvalidHistogramBuckets"

(***************************************************************************)
(* C10. A registration call that returns an error leaves the registry, the *)
(* instruments' allocations and the render output as they were, and        *)
(* returns no metric.                                                      *)
(***************************************************************************)
RegistrationAllOrNothing ==
    [][(nCalls' = nCalls + 1 /\ lastCall'.op \in RegisterOps /\ ~lastResult'.ok)
          => /\ registry' = registry
             /\ heap' = heap
             /\ ObservabilityRegistryRender(registry', heap')
                    = ObservabilityRegistryRender(registry, heap)
             /\ lastResult'.metric = <<>>]_vars

WitnessRejectedOnUsedRegistry ==
    /\ nCalls = 2
    /\ Len(registry) = 1
    /\ lastCall.op = "histogram_with_buckets"
    /\ lastResult.err = "InvalidHistogramBuckets"
    /\ lastResult.metric = <<>>

(***************************************************************************)
(* C11. Within one registry no name is held by two instruments: a second   *)
(* registration under a name already in use fails or replaces the first.   *)
(***************************************************************************)
NamesUniqueInStorage ==
    \A i, j \in DOMAIN registry : registry[i].name = registry[j].name => i = j

(***************************************************************************)
(* C12. Two render() calls with no registration and no mutation between    *)
(* them return the same content type and the same body.                    *)
(***************************************************************************)
RenderIdempotent ==
    (Len(rendered) = 2 /\ rendered[2].consecutive)
        => /\ rendered[2].out.content_type = rendered[1].out.content_type
           /\ rendered[2].out.body = rendered[1].out.body

WitnessRenderedTwiceAfterUse ==
    /\ Len(rendered) = 2
    /\ rendered[2].consecutive
    /\ nMut = MaxMutations
    /\ \E i \in DOMAIN rendered[2].out.body :
           /\ rendered[2].out.body[i].kind = "counter"
           /\ rendered[2].out.body[i].state = 2

(***************************************************************************)
(* C13. The metric a successful registration returned and the instrument   *)
(* the registry keeps are one instrument: a render made after mutations    *)
(* through the metric reports, under the registered name, the value the    *)
(* metric holds.                                                           *)
(***************************************************************************)
LastRender == rendered[Len(rendered)].out

RenderShowsHandleValue ==
    (rendered # <<>> /\ quiet)
        => \A k \in DOMAIN metrics :
               /\ k \in DOMAIN LastRender.body
               /\ LastRender.body[k].name = MetricName(metrics[k])
               /\ LastRender.body[k].state = ValueOf(k)

WitnessRenderAfterTwoIncs ==
    /\ rendered # <<>>
    /\ quiet
    /\ \E k \in DOMAIN metrics :
           /\ KindOf(k) = "counter"
           /\ MetricGetCounter(ValueOf(k)) = 2
           /\ LastRender.body[k].state = 2

(***************************************************************************)
(* C14. A metric's name and description are the strings given when it was  *)
(* created, and no registration, mutation or render changes them.          *)
(***************************************************************************)
MetricIdentityFixed ==
    [][/\ \A k \in DOMAIN metrics :
              /\ k \in DOMAIN metrics'
              /\ MetricName(metrics'[k]) = MetricName(metrics[k])
              /\ MetricDescription(metrics'[k]) = MetricDescription(metrics[k])
       /\ Len(metrics') > Len(metrics)
              => /\ MetricName(metrics'[Len(metrics')]) = lastCall'.name
                 /\ MetricDescription(metrics'[Len(metrics')]) = lastCall'.help]_vars

WitnessNamedMetricsUsed ==
    /\ Len(metrics) = 2
    /\ nMut = MaxMutations
    /\ rendered # <<>>
    /\ MetricName(metrics[1]) = <<"a">>
    /\ MetricDescription(metrics[1]) = "help"

(***************************************************************************)
(* C15. registry.histogram(name, help) returns what                        *)
(* histogram_with_buckets(name, help, B) returns and registers the same    *)
(* buckets, B being 0.005, 0.01, 0.025, 0.05, 0.1, 0.25, 0.5, 1.0, 2.5,    *)
(* 5.0, 10.0.                                                              *)
(***************************************************************************)
ElevenBuckets ==
    <<Fin(5), Fin(10), Fin(25), Fin(50), Fin(100), Fin(250), Fin(500),
      Fin(1000), Fin(2500), Fin(5000), Fin(10000)>>

HistogramIsHistogramWithElevenBuckets ==
    (Returned /\ lastCall.op = "histogram")
        => LET r == ObservabilityRegistryHistogramWithBuckets(
                        ObservabilityRegistryNew, <<>>, lastCall.name,
                        lastCall.help, ElevenBuckets)
           IN  /\ lastResult = r.result
               /\ registry = r.registry
               /\ heap = r.heap

WitnessDefaultHistogramRegistered ==
    /\ Returned
    /\ lastCall.op = "histogram"
    /\ lastResult.ok
    /\ Len(registry) = 1
    /\ Len(heap[registry[1].ptr].v.buckets) = 11

(***************************************************************************)
(* C16. The registry never removes or renames an instrument: every entry   *)
(* stays, unchanged, through every later registration (successful or not), *)
(* mutation and render, and what one render lists the next render lists.   *)
(***************************************************************************)
InstrumentsStay ==
    [][/\ \A i \in DOMAIN registry :
              i \in DOMAIN registry' /\ registry'[i] = registry[i]
       /\ Len(rendered') = 2
              => \A i \in DOMAIN rendered'[1].out.body :
                     /\ i \in DOMAIN rendered'[2].out.body
                     /\ rendered'[2].out.body[i].name = rendered'[1].out.body[i].name
                     /\ rendered'[2].out.body[i].kind = rendered'[1].out.body[i].kind]_vars

WitnessRenderedAroundRegistration ==
    /\ Len(rendered) = 2
    /\ Len(rendered[1].out.body) = 1
    /\ Len(rendered[2].out.body) = 2
    /\ rendered[2].out.body[1].name = rendered[2].out.body[2].name

(***************************************************************************)
(* C17. In the standalone server the metrics route holds the lock only as  *)
(* a reader, a registration holds it as the one writer, and a mutation     *)
(* through a returned metric takes no lock: whoever holds the lock, the    *)
(* mutation can go ahead.                                                  *)
(***************************************************************************)
MutationNeverBlocked ==
    /\ lock.readers \subseteq Scrapers
    /\ lock.writer \subseteq Registrars
    /\ lock.writer # {} => lock.readers = {}
    /\ (metrics # <<>> /\ nMut < MaxMutations) => ENABLED ServerUse

WitnessMutatedUnderWriteLock ==
    /\ heldAtMut # <<>>
    /\ heldAtMut[1].writer = {"r1"}
    /\ nMut > 0
    /\ \E k \in DOMAIN metrics : MetricGetCounter(ValueOf(k)) > 0

(***************************************************************************)
(* C18. Readers do not starve a writer: however /metrics requests keep     *)
(* arriving, a registration queued for the write lock gets it, and every   *)
(* handler that holds the read lock lets it go.                            *)
(***************************************************************************)
WriterEventuallyAcquires ==
    /\ \A t \in Registrars : (pc[t] = "queued") ~> (pc[t] = "locked")
    /\ \A t \in Scrapers : (pc[t] = "locked") ~> (pc[t] # "locked")

WitnessReaderQueuedBehindWriter ==
    /\ pc["r1"] = "queued"
    /\ pc["s1"] = "locked"
    /\ pc["s2"] = "queued"
    /\ Len(waiters) = 2
    /\ waiters[1].task = "r1"

(***************************************************************************)
(* C19. The metrics route answers with what render() returned: 200 with    *)
(* the rendering's content type and body when it succeeded, 500 and no     *)
(* rendered body when it failed.                                           *)
(***************************************************************************)
MetricsRouteReturnsRender ==
    response # <<>>
        => LET result == response[1].result
               sent == response[1].sent
           IN  /\ result.ok => /\ sent.status = 200
                               /\ sent.content_type = result.content_type
                               /\ sent.body = result.body
               /\ ~result.ok => /\ sent.status = 500
                                /\ sent.body = <<>>

WitnessServedCounterValue ==
    /\ response # <<>>
    /\ response[1].result.ok
    /\ response[1].sent.status = 200
    /\ Len(response[1].sent.body) = 1
    /\ response[1].sent.body[1].state = 1

(***************************************************************************)
(* C20. status_code() of a HealthStatus is 200 exactly when is_healthy()   *)
(* holds and 503 otherwise, with or without a reason; the same goes for    *)
(* ReadinessStatus and is_ready().                                         *)
(***************************************************************************)
StatusCodeFollowsPredicate ==
    /\ hanswer # <<>>
           => /\ hanswer[1].healthy <=> hstatus = Healthy
              /\ hanswer[1].healthy => hanswer[1].code = 200
              /\ ~hanswer[1].healthy => hanswer[1].code = 503
    /\ ranswer # <<>>
           => /\ ranswer[1].ready <=> rstatus = Ready
              /\ ranswer[1].ready => ranswer[1].code = 200
              /\ ~ranswer[1].ready => ranswer[1].code = 503

WitnessUnhealthyWithoutReason ==
    /\ hstatus = Unhealthy(<<>>)
    /\ hanswer # <<>>
    /\ hanswer[1].code = 503
    /\ rstatus = NotReady(<<"starting">>)
    /\ ranswer # <<>>
    /\ ranswer[1].code = 503

(***************************************************************************)
(* C21. get_histogram() of a named mock histogram returns the total of the *)
(* values observed and their number: what inner().sum() and                *)
(* inner().count() return.                                                 *)
(***************************************************************************)
MockGetHistogramIsSumAndCount ==
    MetricGetHistogram(hobs)
        = [sum |-> MockHistogramSum(hobs), count |-> MockHistogramCount(hobs)]

(***************************************************************************)
(* C22. get_histogram() of a Prometheus histogram returns (0.0, 0)         *)
(* whatever was observed, while every observe adds the value to the sum    *)
(* and one to the count that render exports.                               *)
(***************************************************************************)
PrometheusHistogramReadsZero ==
    [][\A k \in DOMAIN metrics :
           KindOf(k) = "histogram"
               => LET before == ValueOf(k)
                      after == heap'[MetricInner(metrics[k])].v
                  IN  /\ MetricGetHistogram(after) = [sum |-> Fin(0), count |-> 0]
                      /\ after # before
                             => /\ after.count = before.count + 1
                                /\ after.sum = F64Add(before.sum, Fin(250))
                                /\ ObservabilityRegistryRender(registry', heap')
                                       .body[k].state.count = before.count + 1]_vars

WitnessObservedTwiceAndRendered ==
    /\ rendered # <<>>
    /\ quiet
    /\ \E k \in DOMAIN metrics :
           /\ KindOf(k) = "histogram"
           /\ LastRender.body[k].state.count = 2
           /\ LastRender.body[k].state.sum = Fin(500)
           /\ MetricGetHistogram(ValueOf(k)).count = 0

(***************************************************************************)
(* C24. register_histogram checks the name, then the buckets, then         *)
(* registers: with both invalid the error is the name's, and the buckets'  *)
(* error is returned only for a valid name.                                *)
(***************************************************************************)
NameCheckedBeforeBuckets ==
    (Returned /\ lastCall.op = "histogram_with_buckets")
        => /\ ~MatchesNameGrammar(lastCall.name)
                  => lastResult.err = "InvalidNamingConvention"
           /\ lastResult.err = "InvalidHistogramBuckets"
                  => /\ MatchesNameGrammar(lastCall.name)
                     /\ ~BucketsWellFormed(lastCall.buckets)
           /\ ~lastResult.ok => registry = ObservabilityRegistryNew

WitnessBothInvalidNameReported ==
    /\ Returned
    /\ lastCall.op = "histogram_with_buckets"
    /\ lastCall.name = <<"5">>
    /\ lastCall.buckets = <<NaN>>
    /\ lastResult.err = "InvalidNamingConvention"

(***************************************************************************)
(* C27. registry.histogram(name, help) fails only because of the name:     *)
(* the default buckets pass the bucket check, so the call succeeds for     *)
(* every valid name.                                                       *)
(***************************************************************************)
DefaultHistogramFailsOnlyOnName ==
    /\ ValidateHistogramBuckets(DefaultLatencyBuckets) = "Ok"
    /\ (Returned /\ lastCall.op = "histogram")
           => /\ lastResult.ok <=> MatchesNameGrammar(lastCall.name)
              /\ ~lastResult.ok => lastResult.err = "InvalidNamingConvention"

WitnessUnderscoreNameHistogram ==
    /\ Returned
    /\ lastCall.op = "histogram"
    /\ lastCall.name = <<"_", "5">>
    /\ lastResult.ok
    /\ Len(registry) = 1

(***************************************************************************)
(* C28. Rejected registrations do not poison the registry: whatever was    *)
(* rejected before, a registration with a valid name and valid buckets     *)
(* succeeds, and render succeeds and lists the instruments registered.     *)
(***************************************************************************)
ValidCall(c) ==
    /\ MatchesNameGrammar(c.name)
    /\ c.op = "histogram_with_buckets" => BucketsWellFormed(c.buckets)

RejectionsDoNotPoison ==
    [][(nCalls' = nCalls + 1 /\ ValidCall(lastCall'))
          => /\ lastResult'.ok
             /\ ObservabilityRegistryRender(registry', heap').ok
             /\ Len(ObservabilityRegistryRender(registry', heap').body)
                    = Len(metrics')]_vars

WitnessAcceptedAfterRejection ==
    /\ nCalls = 2
    /\ Len(registry) = 1
    /\ Len(metrics) = 1
    /\ lastResult.ok
    /\ lastCall.op = "histogram_with_buckets"

(***************************************************************************)
(* C25. Instruments are independent: an inc, dec or observe on one         *)
(* instrument, and the registration of a new one, leave the value of every *)
(* other registered instrument as it was, in whatever order the            *)
(* operations of several threads interleave.                               *)
(***************************************************************************)
InstrumentsIndependent ==
    [][/\ \A j, k \in DOMAIN metrics :
              (j # k /\ heap'[MetricInner(metrics[j])].v # ValueOf(j))
                  => heap'[MetricInner(metrics[k])].v = ValueOf(k)
       /\ nCalls' = nCalls + 1
              => \A k \in DOMAIN metrics :
                     heap'[MetricInner(metrics[k])].v = ValueOf(k)]_vars

WitnessOneGaugeOfTwoMoved ==
    /\ Len(metrics) = 2
    /\ KindOf(1) = "gauge"
    /\ KindOf(2) = "gauge"
    /\ MetricGetGauge(ValueOf(1)) = -2
    /\ MetricGetGauge(ValueOf(2)) = 0

(***************************************************************************)
(* C29. Registering a counter or a gauge under a name already registered   *)
(* succeeds and returns a new instrument: it starts at 0, it is not the    *)
(* instrument of any earlier handle, and the earlier handles keep their    *)
(* values.                                                                 *)
(***************************************************************************)
ReRegistrationIsNewInstrument ==
    [][(/\ nCalls' = nCalls + 1
        /\ lastCall'.op \in {"counter", "gauge"}
        /\ MatchesNameGrammar(lastCall'.name)
        /\ \E i \in DOMAIN registry : registry[i].name = lastCall'.name)
          => /\ lastResult'.ok
             /\ Len(metrics') = Len(metrics) + 1
             /\ heap'[MetricInner(lastResult'.metric[1])].v = 0
             /\ \A k \in DOMAIN metrics :
                    /\ MetricInner(metrics[k]) # MetricInner(lastResult'.metric[1])
                    /\ heap'[MetricInner(metrics[k])].v = ValueOf(k)]_vars

WitnessSameNameCountersApart ==
    /\ Len(metrics) = 2
    /\ MetricName(metrics[1]) = MetricName(metrics[2])
    /\ KindOf(1) = "counter"
    /\ KindOf(2) = "counter"
    /\ MetricGetCounter(ValueOf(1)) = 1
    /\ MetricGetCounter(ValueOf(2)) = 0
    /\ lastCall.op = "counter"

(***************************************************************************)
(* C26. With the default checks the health route and the readiness route   *)
(* answer 200 and "OK" in every state of the server: they can run whoever  *)
(* holds the registry's lock, and whatever is registered or counted.       *)
(***************************************************************************)
ProbesAnswerOk ==
    /\ ENABLED HealthHandler
    /\ ENABLED ReadyHandler
    /\ probe # <<>> => probe[1].status = 200 /\ probe[1].body = "OK"

WitnessHealthUnderWriteLock ==
    /\ probe # <<>>
    /\ probe[1].route = "health"
    /\ probe[1].held.writer = {"r1"}
    /\ probe[1].status = 200
    /\ Len(registry) >= 1
    /\ waiters # <<>>

(***************************************************************************)
(* C23, as stated.  The in-memory backend registers into the registry's    *)
(* storage: for every name used with its helpers, the storage holds that   *)
(* name with the instrument made last under it.                            *)
(***************************************************************************)
MockHelpers == {"test_counter", "test_gauge", "test_histogram"}

FreeMetricsLeaveRenderAlone ==
    [][/\ nCalls' = nCalls
              => ObservabilityRegistryRender(registry', heap')
                     = ObservabilityRegistryRender(registry, heap)
       /\ \A i \in DOMAIN free' : \A e \in DOMAIN registry' :
              registry'[e].ptr # MetricInner(free'[i].metric)]_vars

WitnessFreeCounterNamedLikeRegistered ==
    \E i \in DOMAIN free : \E e \in DOMAIN registry :
        /\ free[i].made = "counter"
        /\ registry[e].kind = "counter"
        /\ registry[e].name = MetricName(free[i].metric)
        /\ heap[FreeInner(i)].v = 2
        /\ heap[registry[e].ptr].v = 0
====
